---- MODULE Spec2Model ----
(***************************************************************************)
(* Model of the LyricsPlugin of src/lyrics.js: the directory-listing cache *)
(* and random selection, the per-group rate limiter of drawLyrics, and the *)
(* repository synchronisation pipeline (#syncRepo, #syncFiles,             *)
(* #nukeDirectory).  Times are milliseconds, as Date.now() gives them.     *)
(***************************************************************************)
EXTENDS Integers, Sequences, FiniteSets, TLC

VARIABLES
    clock,      \* Date.now()
    config,     \* this.config: libraries, repositories, groupMapping, rateLimit
    cache,      \* this.cache: lyrics (dir -> {files, mtime}), rateLimit (group -> {count, resetAt})
    saveTimer,  \* this.saveTimer: TRUE once #saveConfig has armed it
    fs,         \* the library directories on disk: dir -> [state, entries]
    handlers,   \* the message handlers in flight: position and locals
    platform,   \* process.platform
    hostRepo,   \* TRUE when the lyrics root lies inside another git working copy
    remote,     \* the commit the remote repository is at
    git,        \* dir -> the commit its .git working copy is at, or "none"
    staging,    \* the staging directories under TEMP_DIR: path -> [entries, head]
    syncs,      \* the #syncRepo invocations in flight: position and locals
    hist        \* history, read by the properties only.  Of the step just taken:
                \*   draw: the rate-limit evaluation, if the step was a drawLyrics
                \*   gets: the #getRandomLyric calls the step made
                \*   copy: the #syncFiles call that succeeded
                \*   remove: the removeLib call and its #safeRemoveDir
                \*   text: the file #getRandomLyric read and the text it made of it
                \*   sync: the #syncRepo invocation that returned, and whether
                \*         this.logger.error was called for its cleanup
                \* and kept from step to step:
                \*   synced: the directories a sync has completed successfully
                \*           on, with no #getRandomLyric on them since
                \* and kept from step to step:
                \*   admitted: group -> draws admitted since its window was last started
                \*             and the limit last set, less those whose reply failed

vars == <<clock, config, cache, saveTimer, fs, handlers, platform, hostRepo, remote, git,
          staging, syncs, hist>>

syncVars == <<platform, hostRepo, remote, git, staging, syncs>>

NoEntry == [absent |-> TRUE]      \* Map.get() of a missing key
NoFile == "none"
NoValue == [type |-> "none"]
EmptyMap == [x \in {} |-> NoValue]

----------------------------------------------------------------------------
(* Bounds of the model *)

MaxHandlers == 2      \* drawLyrics handlers that may await their reply together
MaxBatch == 2         \* largest count typed after the batch command
MaxCount == 2         \* draws of a group in one window before the model stops drawing
MaxRateTicks == 3     \* clock range of SpecRate, in steps of 30 s
MaxCacheTicks == 2    \* clock range of SpecCache, in steps of 30 min
MaxSyncs == 1         \* #syncRepo invocations that may be in flight together
MaxLen == 4           \* characters in a lyric file
MaxRacers == 2        \* #syncRepo invocations in flight together in SpecRace

----------------------------------------------------------------------------
(* Program constants *)

DEFAULT_MAX_PER_HOUR == 60
DEFAULT_COOLDOWN == 3600000
FRESH_MS == 1800000
MINUTE_MS == 60000
BATCH_LIMIT == 20
MAX_LIMIT == 999
MIN_COOLDOWN == 30000
SECOND_MS == 1000

COMMON_LYRICS_DIR == "resources/lyrics/common_lyrics"
LibDir == "resources/lyrics/lib1"
Dirs == {COMMON_LYRICS_DIR, LibDir}
Groups == {"g1", "g2"}

DEFAULT_CONFIG ==
    [libraries |-> EmptyMap, repositories |-> EmptyMap, groupMapping |-> EmptyMap,
     rateLimit |-> [maxPerHour |-> DEFAULT_MAX_PER_HOUR, cooldown |-> DEFAULT_COOLDOWN]]

UNAVAILABLE == [type |-> "unavailable"]

----------------------------------------------------------------------------
(* The directory entries the model lets a library directory hold.  "a.txt"  *)
(* is a readable regular file, "b.txt" a regular file that cannot be read,  *)
(* "d.txt" a directory, "n.md" a readable regular file.                     *)

Names == {"a.txt", "b.txt", "d.txt", "n.md"}
NameOrder == <<"a.txt", "b.txt", "d.txt", "n.md">>

Ext(n) == IF n = "n.md" THEN ".md" ELSE ".txt"
Kind(n) == IF n = "d.txt" THEN "dir" ELSE "file"
Readable(n) == n \in {"a.txt", "n.md"}

\* f.endsWith('.txt')
EndsWithTxt(n) == Ext(n) = ".txt"

\* fs.statSync(path.join(dir, f)).isFile()
IsFile(n) == Kind(n) = "file"

\* fs.readdirSync(dir): the names in directory order
Readdir(dir) == SelectSeq(NameOrder, LAMBDA n : n \in fs[dir].entries)

AbsentDir == [state |-> "absent", entries |-> {}]

----------------------------------------------------------------------------
(* Cache Manager *)

\* (variant: #refreshCache without its isFile() filter)
RefreshNoFileTest(lyrics, dir, now) ==
    IF fs[dir].state = "absent" THEN [threw |-> FALSE, lyrics |-> lyrics, wrote |-> FALSE]
    ELSE IF fs[dir].state = "denied" THEN [threw |-> TRUE, lyrics |-> lyrics, wrote |-> FALSE]
    ELSE [threw |-> FALSE, wrote |-> TRUE,
          lyrics |-> [d \in DOMAIN lyrics \cup {dir} |->
                        IF d = dir
                        THEN [files |-> SelectSeq(Readdir(dir), EndsWithTxt), mtime |-> now]
                        ELSE lyrics[d]]]

\* #refreshCache(dir), on the Map `lyrics` at time `now`: the Map afterwards,
\* whether it threw, whether it wrote the entry.
RefreshCache(lyrics, dir, now) ==
    IF fs[dir].state = "absent" THEN [threw |-> FALSE, lyrics |-> lyrics, wrote |-> FALSE]
    ELSE IF fs[dir].state = "denied" THEN [threw |-> TRUE, lyrics |-> lyrics, wrote |-> FALSE]
    ELSE [threw |-> FALSE, wrote |-> TRUE,
          lyrics |-> [d \in DOMAIN lyrics \cup {dir} |->
                        IF d = dir
                        THEN [files |-> SelectSeq(SelectSeq(Readdir(dir), EndsWithTxt), IsFile),
                              mtime |-> now]
                        ELSE lyrics[d]]]

\* the members every object literal and every JSON.parse result inherits
ObjectPrototype == {"constructor"}
Inherited == "[Function: Object]"
Undefined == "undefined"

\* obj[key]: the own property, else the inherited member, else undefined
Get(obj, key) ==
    IF key \in DOMAIN obj THEN obj[key]
    ELSE IF key \in ObjectPrototype THEN Inherited
    ELSE Undefined

Truthy(v) == v # Undefined

\* #getTargetDir(groupId)
GetTargetDir(groupId) ==
    LET libName == Get(config.groupMapping, groupId)
    IN IF Truthy(libName)
       THEN IF Truthy(Get(config.libraries, libName))
            THEN Get(config.libraries, libName)
            ELSE COMMON_LYRICS_DIR
       ELSE COMMON_LYRICS_DIR

\* !cache || Date.now() - cache.mtime > 1800000
NeedsRefresh(entry, now) == entry = NoEntry \/ now - entry.mtime > FRESH_MS

\* fs.readFileSync(path.join(targetDir, file)) succeeds
CanRead(dir, file) ==
    fs[dir].state = "ok" /\ file \in fs[dir].entries /\ Kind(file) = "file" /\ Readable(file)

\* The body of the try block of #getRandomLyric: the set of its possible
\* outcomes, one per value of Math.random().  An outcome holds the Map
\* afterwards, whether the body threw, the value it returned, and what it did
\* (pre: the entry found; wrote: the entry was rebuilt; used: the entry the
\* list was taken from; picked: the file selected).
TryRandomLyric(lyrics, dir, isRiv, now) ==
    LET pre == IF dir \in DOMAIN lyrics THEN lyrics[dir] ELSE NoEntry
        r == IF NeedsRefresh(pre, now) THEN RefreshCache(lyrics, dir, now)
             ELSE [threw |-> FALSE, lyrics |-> lyrics, wrote |-> FALSE]
        base == [dir |-> dir, now |-> now, pre |-> pre, wrote |-> r.wrote,
                 lyrics |-> r.lyrics, disk |-> fs[dir].entries]
        fail == base @@ [threw |-> TRUE, value |-> NoValue, used |-> NoEntry, picked |-> NoFile]
    IN  IF r.threw THEN {fail}
        ELSE IF dir \notin DOMAIN r.lyrics THEN {fail}
        ELSE LET used == r.lyrics[dir]
             IN IF Len(used.files) = 0
                THEN {[fail EXCEPT !.used = used]}
                ELSE {LET file == used.files[i]
                      IN IF CanRead(dir, file)
                         THEN base @@ [threw |-> FALSE, used |-> used, picked |-> file,
                                       value |-> [type |-> "lyric", dir |-> dir,
                                                  file |-> file]]
                         ELSE [fail EXCEPT !.used = used, !.picked = file]
                      : i \in 1..Len(used.files)}

\* (variant: #getRandomLyric without its catch clause)
RandomLyricNoCatch(lyrics, dir, isRiv, now) ==
    {o @@ [escaped |-> o.threw, ret |-> o.value] :
        o \in TryRandomLyric(lyrics, dir, isRiv, now)}

\* #getRandomLyric(targetDir, isRiv): the catch clause turns every throw into
\* the generic reply.
GetRandomLyric(lyrics, dir, isRiv, now) ==
    {o @@ [escaped |-> FALSE, ret |-> IF o.threw THEN UNAVAILABLE ELSE o.value] :
        o \in TryRandomLyric(lyrics, dir, isRiv, now)}

----------------------------------------------------------------------------
(* Rate Limiter (the first half of drawLyrics) *)

Min(a, b) == IF a < b THEN a ELSE b
Max(a, b) == IF a > b THEN a ELSE b

\* Math.ceil(a / b) for b > 0
CeilDiv(a, b) == -((-a) \div b)

\* const { maxPerHour, cooldown } = this.config.rateLimit
ReadRateLimit(cfg) == cfg.rateLimit

\* if (!this.cache.rateLimit.has(groupId)) this.cache.rateLimit.set(groupId, {count:0, resetAt:Date.now()})
InitLimit(limits, groupId, now) ==
    IF groupId \in DOMAIN limits THEN limits
    ELSE [g \in DOMAIN limits \cup {groupId} |->
            IF g = groupId THEN [count |-> 0, resetAt |-> now] ELSE limits[g]]

\* (variant: the window also ends at the instant the cooldown is reached)
WindowExpiredAtCooldown(limit, now, cooldown) == now - limit.resetAt >= cooldown

\* Date.now() - limit.resetAt > cooldown
WindowExpired(limit, now, cooldown) == now - limit.resetAt > cooldown

\* limit.count >= maxPerHour
Throttled(limit, maxPerHour) == limit.count >= maxPerHour

\* (variant: Math.floor in place of Math.ceil)
RemainingWaitFloor(limit, now, cooldown) == (cooldown - (now - limit.resetAt)) \div MINUTE_MS

\* Math.ceil((cooldown - (Date.now() - limit.resetAt))/60000)
RemainingWait(limit, now, cooldown) == CeilDiv(cooldown - (now - limit.resetAt), MINUTE_MS)

----------------------------------------------------------------------------
(* Handlers.  A handler runs from one await to the next without interleaving; *)
(* each action below is one such stretch.  A handler that has nothing left to *)
(* do but await its reply (the throttled drawLyrics, batchDraw, setRateLimit) *)
(* is over, for every other handler, when that await starts: its action ends  *)
(* there.  drawLyrics still has `limit.count++` to run after its await, so it *)
(* keeps a position in `handlers` until the reply has settled.                *)

Procs == 1..MaxHandlers

Idle == [pc |-> "idle", group |-> "none"]

NoSync == [via |-> "none"]
NoCopy == [mode |-> "none"]
NoRemove == [libName |-> "none"]
NoText == [file |-> "none"]

NoDraw == [group |-> "none", now |-> 0, existed |-> FALSE, pre |-> NoEntry,
           limit |-> NoEntry, maxPerHour |-> 0, cooldown |-> 0,
           admitted |-> FALSE, wait |-> 0, nth |-> 0]

\* the history with the entries of the previous step dropped
Quiet == [hist EXCEPT !.draw = NoDraw, !.gets = <<>>, !.sync = NoSync, !.copy = NoCopy,
                      !.remove = NoRemove, !.text = NoText]

\* the history after #getRandomLyric calls on `dir`
Served(dir) == [Quiet EXCEPT !.synced = @ \ {dir}]

\* the history entry of one #getRandomLyric call made for `groupId` by `via`
\* (afterSync: a sync of the directory has completed successfully and this
\* step's calls are the first on it since)
GetEntry(o, groupId, via) ==
    [dir |-> o.dir, now |-> o.now, pre |-> o.pre, wrote |-> o.wrote, used |-> o.used,
     picked |-> o.picked, ret |-> o.ret, threw |-> o.threw, escaped |-> o.escaped,
     disk |-> o.disk, group |-> groupId, via |-> via, afterSync |-> o.dir \in hist.synced]

\* drawLyrics(e), up to its first await
DrawLyrics(p, groupId, isRiv) ==
    /\ handlers[p].pc = "idle"
    /\ LET now == clock
           rl == ReadRateLimit(config)
           limits == InitLimit(cache.rateLimit, groupId, now)
           pre == limits[groupId]
           expired == WindowExpired(pre, now, rl.cooldown)
           limit == IF expired THEN [count |-> 0, resetAt |-> now] ELSE pre
           limits2 == [limits EXCEPT ![groupId] = limit]
           fresh == groupId \notin DOMAIN cache.rateLimit \/ expired
           before == IF fresh THEN 0 ELSE hist.admitted[groupId]
           draw == [group |-> groupId, now |-> now,
                    existed |-> groupId \in DOMAIN cache.rateLimit,
                    pre |-> pre, limit |-> limit,
                    maxPerHour |-> rl.maxPerHour, cooldown |-> rl.cooldown]
       IN  IF Throttled(limit, rl.maxPerHour)
           THEN LET wait == RemainingWait(limit, now, rl.cooldown)
                IN /\ cache' = [cache EXCEPT !.rateLimit = limits2]
                   /\ handlers' = handlers
                   /\ hist' = [Quiet EXCEPT !.admitted[groupId] = before,
                                   !.draw = draw @@ [admitted |-> FALSE, wait |-> wait,
                                                     nth |-> before]]
           ELSE /\ limit.count < MaxCount /\ before < MaxCount
                /\ \E o \in GetRandomLyric(cache.lyrics, GetTargetDir(groupId), isRiv, now) :
                    /\ cache' = [lyrics |-> o.lyrics, rateLimit |-> limits2]
                    /\ handlers' = [handlers EXCEPT ![p] =
                          IF o.escaped THEN Idle
                          ELSE [pc |-> "drawReply", group |-> groupId]]
                    /\ hist' = [Served(o.dir) EXCEPT !.admitted[groupId] = before + 1,
                                    !.draw = draw @@ [admitted |-> TRUE, wait |-> 0,
                                                      nth |-> before + 1],
                                    !.gets = <<GetEntry(o, groupId, "drawLyrics")>>]
    /\ UNCHANGED <<clock, config, saveTimer, fs, syncVars>>

\* drawLyrics(e) after `await e.reply(lyrics)`: limit.count++
LyricReplyDone(p) ==
    /\ handlers[p].pc = "drawReply"
    /\ cache' = [cache EXCEPT !.rateLimit[handlers[p].group].count = @ + 1]
    /\ hist' = Quiet
    /\ handlers' = [handlers EXCEPT ![p] = Idle]
    /\ UNCHANGED <<clock, config, saveTimer, fs, syncVars>>

\* Array.from({length: count}, () => this.#getRandomLyric(...)): the possible
\* outcomes of n calls in a row: the Map afterwards, the list of values, the
\* history entries of the calls, and whether a call threw past its caller.
RECURSIVE DrawMany(_, _, _, _, _)
DrawMany(lyrics, groupId, isRiv, now, n) ==
    IF n = 0 THEN {[lyrics |-> lyrics, list |-> <<>>, gets |-> <<>>, escaped |-> FALSE]}
    ELSE UNION {
           IF o.escaped
           THEN {[lyrics |-> o.lyrics, list |-> <<>>,
                  gets |-> <<GetEntry(o, groupId, "batchDraw")>>, escaped |-> TRUE]}
           ELSE {[r EXCEPT !.list = <<o.ret>> \o @,
                           !.gets = <<GetEntry(o, groupId, "batchDraw")>> \o @] :
                   r \in DrawMany(o.lyrics, groupId, isRiv, now, n - 1)}
           : o \in GetRandomLyric(lyrics, GetTargetDir(groupId), isRiv, now)}

\* batchDraw(e); countStr is the number typed
BatchDraw(groupId, countStr, isRiv) ==
    /\ LET count == Min(countStr, BATCH_LIMIT)
       IN \E r \in DrawMany(cache.lyrics, groupId, isRiv, clock, count) :
            /\ cache' = [cache EXCEPT !.lyrics = r.lyrics]
            /\ hist' = [Served(GetTargetDir(groupId)) EXCEPT !.gets = r.gets]
    /\ UNCHANGED <<clock, config, saveTimer, fs, handlers, syncVars>>

\* setRateLimit(e); maxStr and cdStr are the numbers typed
SetRateLimit(maxStr, cdStr) ==
    /\ LET max == Min(maxStr, MAX_LIMIT)
           cooldown == Max(cdStr * SECOND_MS, MIN_COOLDOWN)
       IN config' = [config EXCEPT !.rateLimit = [maxPerHour |-> max, cooldown |-> cooldown]]
    /\ saveTimer' = TRUE
    /\ hist' = [Quiet EXCEPT !.admitted = [g \in Groups |-> 0]]
    /\ UNCHANGED <<clock, cache, fs, handlers, syncVars>>

\* drawLyrics(e) when `await e.reply(lyrics)` rejects: the handler ends there
LyricReplyFail(p) ==
    /\ handlers[p].pc = "drawReply"
    /\ handlers' = [handlers EXCEPT ![p] = Idle]
    /\ hist' = [Quiet EXCEPT !.admitted[handlers[p].group] = IF @ > 0 THEN @ - 1 ELSE 0]
    /\ UNCHANGED <<clock, config, cache, saveTimer, fs, syncVars>>

----------------------------------------------------------------------------
(* Sync Engine: #syncRepo, #syncFiles, #nukeDirectory.  Every await of a     *)
(* subprocess or of a filesystem call is one action; another invocation may  *)
(* run between two of them.                                                  *)

Syncers == 1..MaxSyncs

RepoName == "repo1"
RepoUrl == "https://git.example/songs/lyrics.git"

\* new URL(repoUrl).pathname.split('/').pop().replace('.git', '')
ShortName(url) == IF url = RepoUrl THEN "lyrics" ELSE "none"

\* path.join(TEMP_DIR, `sync_${Date.now()}_${repoName}`)
TempDir(now, url) == [t |-> now, repo |-> ShortName(url)]

\* the files a commit of the remote repository holds at its top level
CommitFiles(c) == IF c = "c1" THEN {"a.txt", "n.md"} ELSE {"b.txt", "n.md"}

\* the commit `git rev-parse HEAD` finds above a directory that holds no .git
HostHead == "host"

Failed(kind) == [ok |-> FALSE, value |-> kind]
Done(hash) == [ok |-> TRUE, value |-> hash]
NoOutcome == [ok |-> FALSE, value |-> "none"]

IdleSync == [pc |-> "idle"]

Exists(dir) == dir \in DOMAIN staging

\* the staging Map without dir
Removed(dir) == [d \in DOMAIN staging \ {dir} |-> staging[d]]

\* the staging Map with dir holding `content`
Put(dir, content) ==
    [d \in DOMAIN staging \cup {dir} |-> IF d = dir THEN content ELSE staging[d]]

EmptyDir == [entries |-> {}, head |-> "none"]

\* syncRepo's entry: the handler has checked its arguments
Begin(s, via, targetDir, repoUrl) ==
    /\ syncs' = [syncs EXCEPT ![s] =
          [pc |-> "ensureDir", via |-> via, targetDir |-> targetDir, repoUrl |-> repoUrl,
           tempDir |-> TempDir(clock, repoUrl), isExist |-> FALSE, tried |-> NoOutcome,
           cloned |-> "none"]]
    /\ hist' = Quiet
    /\ UNCHANGED <<clock, config, cache, saveTimer, fs, handlers, platform, hostRepo,
                   remote, git, staging>>

\* fetchFromRepo(e), up to the first await of #syncRepo
FetchFromRepo(s, libName, repoName) ==
    /\ syncs[s].pc = "idle"
    /\ libName \in DOMAIN config.libraries
    /\ repoName \in DOMAIN config.repositories
    /\ Begin(s, "fetchFromRepo", config.libraries[libName], config.repositories[repoName])

\* updateCommon(e), up to the first await of #syncRepo
UpdateCommon(s, repoName) ==
    /\ syncs[s].pc = "idle"
    /\ repoName \in DOMAIN config.repositories
    /\ Begin(s, "updateCommon", COMMON_LYRICS_DIR, config.repositories[repoName])

\* (variant: the cleanup runs only when the try block succeeded)
CleanupOnSuccessOnly(tried) == IF tried.ok THEN "nuke" ELSE "return"

\* try { ... } finally { await this.#nukeDirectory(tempDir)... }: where the
\* invocation goes when the try block is left with outcome `tried`
AfterTry(tried) == "nuke"

\* (variant: a failed cleanup rejects #syncRepo)
CleanupErrorThrown(tried, cleanupFailed) ==
    IF cleanupFailed THEN Failed("CleanupFailed") ELSE tried

\* .catch(err => this.logger.error(...)): what #syncRepo settles with when the
\* try block ended with `tried` and the cleanup failed or not
Settled(tried, cleanupFailed) == tried

\* #syncRepo settles and its caller runs on to its reply: updateCommon
\* refreshes the cache of the common library after a success.
Return(s, stagingNow, cleanupTried, cleanupFailed) ==
    LET y == syncs[s]
        result == Settled(y.tried, cleanupFailed)
        r == RefreshCache(cache.lyrics, COMMON_LYRICS_DIR, clock)
    IN /\ syncs' = [syncs EXCEPT ![s] = IdleSync]
       /\ staging' = stagingNow
       /\ cache' = IF y.via = "updateCommon" /\ result.ok
                   THEN [cache EXCEPT !.lyrics = r.lyrics] ELSE cache
       /\ hist' = [Quiet EXCEPT
             !.synced = IF result.ok THEN @ \cup {y.targetDir} ELSE @,
             !.sync =
             [targetDir |-> y.targetDir, via |-> y.via, tempDir |-> y.tempDir,
              isExist |-> y.isExist, cloned |-> y.cloned, tried |-> y.tried, result |-> result,
              cleanupTried |-> cleanupTried, cleanupFailed |-> cleanupFailed,
              logged |-> cleanupFailed,
              left |-> y.tempDir \in DOMAIN stagingNow]]
       /\ UNCHANGED <<clock, config, saveTimer, fs, handlers, platform, hostRepo, remote, git>>

\* the try block is left with outcome `tried`
Leave(s, tried, fsNow, gitNow, stagingNow) ==
    /\ fs' = fsNow /\ git' = gitNow
    /\ IF AfterTry(tried) = "nuke"
       THEN /\ syncs' = [syncs EXCEPT ![s].pc = "nuke", ![s].tried = tried]
            /\ staging' = stagingNow
            /\ hist' = Quiet
            /\ UNCHANGED <<clock, config, cache, saveTimer, handlers, platform, hostRepo,
                           remote>>
       ELSE /\ syncs' = [syncs EXCEPT ![s] = IdleSync]
            /\ staging' = stagingNow
            /\ hist' = [Quiet EXCEPT
                  !.synced = IF tried.ok THEN @ \cup {syncs[s].targetDir} ELSE @,
                  !.sync =
                  [targetDir |-> syncs[s].targetDir, via |-> syncs[s].via,
                   tempDir |-> syncs[s].tempDir, isExist |-> syncs[s].isExist,
                   cloned |-> syncs[s].cloned, tried |-> tried, result |-> tried,
                   cleanupTried |-> FALSE, cleanupFailed |-> FALSE, logged |-> FALSE,
                   left |-> syncs[s].tempDir \in DOMAIN stagingNow]]
            /\ UNCHANGED <<clock, config, cache, saveTimer, handlers, platform, hostRepo,
                           remote>>

\* the try block goes on to its next await, leaving history h
StepNoting(s, upd, h) ==
    /\ syncs' = [syncs EXCEPT ![s] = upd]
    /\ hist' = h
    /\ UNCHANGED <<clock, config, cache, saveTimer, handlers, platform, hostRepo, remote>>

\* the try block goes on to its next await
Step(s, upd) == StepNoting(s, upd, Quiet)

\* await fse.ensureDir(tempDir)
EnsureDir(s, ok) ==
    /\ syncs[s].pc = "ensureDir"
    /\ IF ok
       THEN /\ staging' = IF Exists(syncs[s].tempDir) THEN staging
                          ELSE Put(syncs[s].tempDir, EmptyDir)
            /\ Step(s, [syncs[s] EXCEPT !.pc = "pathExists"])
            /\ UNCHANGED <<fs, git>>
       ELSE Leave(s, Failed("ensureDir"), fs, git, staging)

\* const isExist = await fse.pathExists(path.join(targetDir, '.git'))
PathExists(s) ==
    /\ syncs[s].pc = "pathExists"
    /\ Step(s, [syncs[s] EXCEPT !.pc = "vcs", !.isExist = git[syncs[s].targetDir] # "none"])
    /\ UNCHANGED <<fs, git, staging>>

\* the library directory after `git pull --rebase` brought it to commit c
Pulled(dir, c) ==
    [state |-> "ok", entries |-> (fs[dir].entries \ CommitFiles(git[dir])) \cup CommitFiles(c)]

\* await execa('git', ['-C', targetDir, 'pull', '--rebase']) or
\* await execa('git', ['clone', '--depth=1', repoUrl, tempDir])
Vcs(s, ok) ==
    /\ syncs[s].pc = "vcs"
    /\ LET y == syncs[s]
           t == y.targetDir
       IN IF y.isExist
          THEN IF ok /\ git[t] # "none" /\ fs[t].state = "ok"
               THEN /\ fs' = [fs EXCEPT ![t] = Pulled(t, remote)]
                    /\ git' = [git EXCEPT ![t] = remote]
                    /\ staging' = staging
                    /\ Step(s, [y EXCEPT !.pc = "probe"])
               ELSE Leave(s, Failed("PullFailed"), fs, git, staging)
          ELSE IF ok /\ (~Exists(y.tempDir) \/ staging[y.tempDir] = EmptyDir)
               THEN /\ staging' = Put(y.tempDir, [entries |-> CommitFiles(remote),
                                                  head |-> remote])
                    /\ Step(s, [y EXCEPT !.pc = "probe", !.cloned = remote])
                    /\ UNCHANGED <<fs, git>>
               ELSE Leave(s, Failed("CloneFailed"), fs, git, staging)

\* #syncFiles: await execa('which', ['rsync']) on platforms other than win32
Probe(s, found) ==
    /\ syncs[s].pc = "probe"
    /\ IF platform = "win32" \/ found
       THEN /\ Step(s, [syncs[s] EXCEPT !.pc = "copy"])
            /\ UNCHANGED <<fs, git, staging>>
       ELSE Leave(s, Failed("ToolMissing"), fs, git, staging)

\* the entries the include/exclude filters let through: '**/*.txt' is
\* included, everything else falls to --exclude=*
Included(entries) == {n \in entries : EndsWithTxt(n)}

\* (variant: the copy without --delete / /MIR)
CopiedNoDelete(src, dest) ==
    [state |-> "ok", entries |-> Included(src) \cup dest.entries]

\* the target directory after the copy tool mirrored the included entries of
\* the source into it; entries the filters exclude are left as they are
Mirrored(src, dest) ==
    [state |-> "ok", entries |-> Included(src) \cup (dest.entries \ Included(dest.entries))]

\* #syncFiles: await execa('rsync', ...) or await execa('robocopy', ...).
\* robocopy exits with 1 when it copied files, which execa rejects.
Copy(s, ok) ==
    /\ syncs[s].pc = "copy"
    /\ LET y == syncs[s]
           t == y.targetDir
           srcThere == IF y.isExist THEN fs[t].state = "ok" ELSE Exists(y.tempDir)
           src == IF y.isExist THEN fs[t].entries ELSE staging[y.tempDir].entries
       IN IF ok /\ srcThere /\ fs[t].state # "denied"
          THEN LET after == Mirrored(src, fs[t])
               IN IF platform = "win32" /\ after # fs[t]
                  THEN Leave(s, Failed("CopyFailed"), [fs EXCEPT ![t] = after], git, staging)
                  ELSE /\ fs' = [fs EXCEPT ![t] = after]
                       /\ StepNoting(s, [y EXCEPT !.pc = "revParse"],
                             [Quiet EXCEPT !.copy =
                                 [mode |-> IF y.isExist THEN "update" ELSE "clone",
                                  targetDir |-> t, src |-> src,
                                  before |-> fs[t].entries, after |-> after.entries]])
                       /\ UNCHANGED <<git, staging>>
          ELSE Leave(s, Failed("CopyFailed"), fs, git, staging)

\* git rev-parse HEAD with cwd targetDir: the commit of the working copy the
\* directory is, or lies in
RevParse(targetDir) ==
    IF fs[targetDir].state # "ok" THEN Failed("RevParseFailed")
    ELSE IF git[targetDir] # "none" THEN Done(git[targetDir])
    ELSE IF hostRepo THEN Done(HostHead)
    ELSE Failed("RevParseFailed")

\* const { stdout: hash } = await execa('git', ['rev-parse', 'HEAD'], { cwd: targetDir })
ResolveHead(s) ==
    /\ syncs[s].pc = "revParse"
    /\ Leave(s, RevParse(syncs[s].targetDir), fs, git, staging)

\* #nukeDirectory: if (!await fse.pathExists(dir)) return
Nuke(s) ==
    /\ syncs[s].pc = "nuke"
    /\ IF Exists(syncs[s].tempDir)
       THEN /\ Step(s, [syncs[s] EXCEPT !.pc = "remove"])
            /\ UNCHANGED <<fs, git, staging>>
       ELSE Return(s, staging, TRUE, FALSE)

\* #nukeDirectory: await fse.remove(dir)
Remove(s, ok) ==
    /\ syncs[s].pc = "remove"
    /\ IF ok
       THEN Return(s, Removed(syncs[s].tempDir), TRUE, FALSE)
       ELSE /\ Step(s, [syncs[s] EXCEPT !.pc = "force"])
            /\ UNCHANGED <<fs, git, staging>>

\* #nukeDirectory: await execa('rm', ['-rf', dir]) (rmdir /s /q on win32);
\* how: "removed", "kept" (the command exits with 0 and the directory is
\* still there) or "failed" (the command fails)
Force(s, how) ==
    /\ syncs[s].pc = "force"
    /\ IF how = "failed"
       THEN Return(s, staging, TRUE, TRUE)
       ELSE /\ staging' = IF how = "removed" THEN Removed(syncs[s].tempDir) ELSE staging
            /\ Step(s, [syncs[s] EXCEPT !.pc = "forceCheck"])
            /\ UNCHANGED <<fs, git>>

\* #nukeDirectory: if (await fse.pathExists(dir)) throw ...
ForceCheck(s) ==
    /\ syncs[s].pc = "forceCheck"
    /\ Return(s, staging, TRUE, Exists(syncs[s].tempDir))

\* the subprocess awaited at position pc never exits: where the invocation
\* then stands.  ensureDir, pathExists and fse.remove start no subprocess.
HungAt(pc) ==
    CASE pc = "vcs" -> "vcsHung"
      [] pc = "probe" -> "probeHung"
      [] pc = "copy" -> "copyHung"
      [] pc = "revParse" -> "revParseHung"
      [] pc = "force" -> "forceHung"

\* the execa calls that pass { timeout }: git pull and git clone only
HasTimeout(pc) == pc = "vcsHung"

\* the subprocess the invocation awaits does not exit
Hang(s) ==
    /\ syncs[s].pc \in {"vcs", "probe", "copy", "revParse", "force"}
    /\ ~(syncs[s].pc = "probe" /\ platform = "win32")
    /\ Step(s, [syncs[s] EXCEPT !.pc = HungAt(@)])
    /\ UNCHANGED <<fs, git, staging>>

\* execa kills the subprocess when its timeout expires, and rejects
Timeout(s) ==
    /\ HasTimeout(syncs[s].pc)
    /\ Leave(s, Failed(IF syncs[s].isExist THEN "PullFailed" ELSE "CloneFailed"),
             fs, git, staging)

----------------------------------------------------------------------------
(* Library Manager: paths.  A path is a string; Segments gives the segments  *)
(* path.resolve would split it into, below process.cwd().                    *)

SAFE_BASE == "resources/lyrics"
DotsDir == "resources/lyrics/a..b"
NestedDir == "resources/lyrics/lib1/d.txt"
EscapingPath == "resources/lyrics/lib1/../../etc"
OutsideDir == "resources/etc"
SiblingDir == "resources/lyrics2"

Segments(p) ==
    CASE p = SAFE_BASE -> <<"resources", "lyrics">>
      [] p = COMMON_LYRICS_DIR -> <<"resources", "lyrics", "common_lyrics">>
      [] p = LibDir -> <<"resources", "lyrics", "lib1">>
      [] p = DotsDir -> <<"resources", "lyrics", "a..b">>
      [] p = NestedDir -> <<"resources", "lyrics", "lib1", "d.txt">>
      [] p = EscapingPath -> <<"resources", "lyrics", "lib1", "..", "..", "etc">>
      [] p = OutsideDir -> <<"resources", "etc">>
      [] p = SiblingDir -> <<"resources", "lyrics2">>

\* the directories of the disk, each under the path that names it directly
DiskDirs == {COMMON_LYRICS_DIR, LibDir, DotsDir, NestedDir, OutsideDir, SiblingDir}

\* path.resolve / path.normalize: '..' segments applied
RECURSIVE Normalize(_, _)
Normalize(segs, acc) ==
    IF segs = <<>> THEN acc
    ELSE IF Head(segs) = ".."
         THEN Normalize(Tail(segs), IF acc = <<>> THEN acc ELSE SubSeq(acc, 1, Len(acc) - 1))
         ELSE Normalize(Tail(segs), Append(acc, Head(segs)))

Resolved(p) == Normalize(Segments(p), <<>>)

\* the directory of the disk a path leads to
Canonical(p) == CHOOSE d \in DiskDirs \cup {SAFE_BASE} : Segments(d) = Resolved(p)

\* the length of the longest common prefix of two sequences
RECURSIVE CommonPrefix(_, _)
CommonPrefix(a, b) ==
    IF a = <<>> \/ b = <<>> \/ Head(a) # Head(b) THEN 0
    ELSE 1 + CommonPrefix(Tail(a), Tail(b))

\* path.relative(from, to), as segments
Relative(from, to) ==
    LET f == Resolved(from)
        t == Resolved(to)
        k == CommonPrefix(f, t)
    IN [i \in 1..(Len(f) - k) |-> ".."] \o SubSeq(t, k + 1, Len(t))

\* segment.includes('..')
SegmentIncludesDots(seg) == seg \in {"..", "a..b"}

\* relativePath.includes('..'): no '..' arises across a separator
IncludesDots(rel) == \E i \in DOMAIN rel : SegmentIncludesDots(rel[i])

\* a.startsWith(b), for two segments
SegmentStartsWith(a, b) == a = b \/ (a = "lyrics2" /\ b = "lyrics")

\* targetDir.startsWith(safeBase), on the strings as given
StartsWith(p, base) ==
    LET a == Segments(p)
        b == Segments(base)
    IN /\ Len(a) >= Len(b)
       /\ \A i \in 1..(Len(b) - 1) : a[i] = b[i]
       /\ SegmentStartsWith(a[Len(b)], b[Len(b)])

\* #safeRemoveDir: relativePath.includes('..') || !targetDir.startsWith(safeBase)
Escapes(targetDir) ==
    IncludesDots(Relative(SAFE_BASE, targetDir)) \/ ~StartsWith(targetDir, SAFE_BASE)

----------------------------------------------------------------------------
(* Library Manager: createLib, linkGroup, removeLib, #safeRemoveDir *)

\* path.join(process.cwd(), 'resources/lyrics', libName)
LibPath(libName) == IF libName = "a..b" THEN DotsDir ELSE LibDir

\* /[\\/:*?"<>|]/.test(libName)
HasForbiddenChar(libName) == libName = "a/b"

\* fs.existsSync(p): false for what is not a path
ExistsOn(disk, p) == p # Inherited /\ disk[Canonical(p)].state # "absent"

\* obj with obj[key] = value
With(obj, key, value) ==
    [k \in DOMAIN obj \cup {key} |-> IF k = key THEN value ELSE obj[k]]

\* obj after delete obj[key]
Without(obj, key) == [k \in DOMAIN obj \ {key} |-> obj[k]]

\* createLib(e); mkdir is the outcome of fs.promises.mkdir
CreateLib(libName, mkdir) ==
    /\ IF HasForbiddenChar(libName) \/ ExistsOn(fs, LibPath(libName))
       THEN UNCHANGED <<config, fs, saveTimer>>
       ELSE IF mkdir
            THEN /\ fs' = [fs EXCEPT ![LibPath(libName)] = [state |-> "ok", entries |-> {}]]
                 /\ config' = [config EXCEPT !.libraries = With(@, libName, LibPath(libName))]
                 /\ saveTimer' = TRUE
            ELSE UNCHANGED <<config, fs, saveTimer>>
    /\ hist' = Quiet
    /\ UNCHANGED <<clock, cache, handlers, syncVars>>

\* linkGroup(e)
LinkGroup(groupId, libName) ==
    /\ IF ~Truthy(Get(config.libraries, libName))
       THEN UNCHANGED <<config, saveTimer>>
       ELSE /\ config' = [config EXCEPT !.groupMapping = With(@, groupId, libName)]
            /\ saveTimer' = TRUE
    /\ hist' = Quiet
    /\ UNCHANGED <<clock, cache, fs, handlers, syncVars>>

\* where a directory is entered in its parent, for the directories whose
\* parent is on the disk
ParentOf(dir) == IF dir = NestedDir THEN [dir |-> LibDir, name |-> "d.txt"]
                 ELSE [dir |-> "none", name |-> "none"]

\* an entry of the delete stack: path.join(current, f)
Item(dir, n) ==
    IF Kind(n) = "dir"
    THEN [isDir |-> TRUE, path |-> NestedDir, dir |-> dir, name |-> n]
    ELSE [isDir |-> FALSE, path |-> "none", dir |-> dir, name |-> n]

DirItem(path) ==
    [isDir |-> TRUE, path |-> path, dir |-> ParentOf(path).dir, name |-> ParentOf(path).name]

\* the disk without the entry an item names
Unlinked(disk, item) ==
    LET gone == IF item.isDir THEN [disk EXCEPT ![item.path] = AbsentDir] ELSE disk
    IN IF item.dir = "none" THEN gone
       ELSE [gone EXCEPT ![item.dir].entries = @ \ {item.name}]

\* #safeRemoveDir: while (deleteStack.length) { ... }
RECURSIVE DeleteLoop(_, _)
DeleteLoop(stack, disk) ==
    IF stack = <<>> THEN [threw |-> FALSE, error |-> "none", disk |-> disk]
    ELSE LET current == stack[Len(stack)]
             rest == SubSeq(stack, 1, Len(stack) - 1)
         IN IF current.isDir
            THEN LET d == disk[current.path]
                     names == SelectSeq(NameOrder, LAMBDA n : n \in d.entries)
                     pushed == rest \o [i \in DOMAIN names |-> Item(current.path, names[i])]
                 IN IF d.state = "denied"
                    THEN [threw |-> TRUE, error |-> "EACCES", disk |-> disk]
                    ELSE IF d.entries # {}
                    THEN [threw |-> TRUE, error |-> "ENOTEMPTY", disk |-> disk]
                    ELSE DeleteLoop(pushed, Unlinked(disk, current))
            ELSE DeleteLoop(rest, Unlinked(disk, current))

\* #safeRemoveDir(targetDir) on a disk: whether it threw, with what, the
\* disk it leaves, and whether it got to the path check
SafeRemoveDir(disk, targetDir) ==
    IF ~ExistsOn(disk, targetDir)
    THEN [threw |-> FALSE, error |-> "none", disk |-> disk, checked |-> FALSE]
    ELSE IF Escapes(targetDir)
    THEN [threw |-> TRUE, error |-> "PathEscape", disk |-> disk, checked |-> TRUE]
    ELSE LET r == DeleteLoop(<<DirItem(Canonical(targetDir))>>, disk)
         IN IF ~r.threw /\ ExistsOn(r.disk, targetDir)
            THEN [threw |-> TRUE, error |-> "StillThere", disk |-> r.disk, checked |-> TRUE]
            ELSE [threw |-> r.threw, error |-> r.error, disk |-> r.disk, checked |-> TRUE]

\* (variant: removeLib dropping the entry whatever #safeRemoveDir did)
EntryDroppedAnyway(libraries, libName, threw) == Without(libraries, libName)

\* removeLib: delete this.config.libraries[libName] follows #safeRemoveDir
\* inside the try block
AfterRemoval(libraries, libName, threw) ==
    IF threw THEN libraries ELSE Without(libraries, libName)

\* removeLib(e)
RemoveLib(libName) ==
    LET targetDir == Get(config.libraries, libName)
        r == SafeRemoveDir(fs, targetDir)
    IN /\ IF ~Truthy(targetDir)
          THEN /\ UNCHANGED <<config, fs, saveTimer>>
               /\ hist' = Quiet
          ELSE /\ fs' = r.disk
               /\ config' = [config EXCEPT !.libraries = AfterRemoval(@, libName, r.threw)]
               /\ saveTimer' = IF r.threw THEN saveTimer ELSE TRUE
               /\ hist' = [Quiet EXCEPT !.remove =
                     [libName |-> libName, targetDir |-> targetDir,
                      existed |-> ExistsOn(fs, targetDir), before |-> fs,
                      registered |-> config.libraries,
                      threw |-> r.threw, error |-> r.error, checked |-> r.checked]]
       /\ UNCHANGED <<clock, cache, handlers, syncVars>>

----------------------------------------------------------------------------
(* Lyric text: the second half of #getRandomLyric.  A text is a sequence of  *)
(* characters; "LF" and "CR" stand for the line feed and carriage return.    *)

Chars == {"a", "LF", "CR"}

RECURSIVE SeqsUpTo(_)
SeqsUpTo(n) ==
    IF n = 0 THEN {<<>>}
    ELSE LET shorter == SeqsUpTo(n - 1)
         IN shorter \cup {Append(t, c) : t \in {u \in shorter : Len(u) = n - 1}, c \in Chars}

\* what fs.readFileSync(filePath, 'utf-8') may return
Contents == SeqsUpTo(MaxLen)

\* (variant: the content used as read)
Unnormalized(text) == text

\* content.replace(/\r\n?/g, '\n')
RECURSIVE NormalizeEol(_)
NormalizeEol(text) ==
    IF text = <<>> THEN <<>>
    ELSE IF Head(text) = "CR"
         THEN IF Len(text) >= 2 /\ text[2] = "LF"
              THEN <<"LF">> \o NormalizeEol(SubSeq(text, 3, Len(text)))
              ELSE <<"LF">> \o NormalizeEol(Tail(text))
         ELSE <<Head(text)>> \o NormalizeEol(Tail(text))

IsPrefix(sep, text) == Len(text) >= Len(sep) /\ SubSeq(text, 1, Len(sep)) = sep

\* text.split(sep), current being the piece collected so far
RECURSIVE SplitFrom(_, _, _)
SplitFrom(text, sep, current) ==
    IF text = <<>> THEN <<current>>
    ELSE IF IsPrefix(sep, text)
         THEN <<current>> \o SplitFrom(SubSeq(text, Len(sep) + 1, Len(text)), sep, <<>>)
         ELSE SplitFrom(Tail(text), sep, Append(current, Head(text)))

Split(text, sep) == SplitFrom(text, sep, <<>>)

\* path.basename(file, '.txt')
Basename(file) ==
    CASE file = "a.txt" -> "a" [] file = "b.txt" -> "b" [] file = "d.txt" -> "d"
      [] file = "n.md" -> "n.md"

\* the two em-dashes and path.basename(file, '.txt')
Author(file) == <<"--", Basename(file)>>

\* (variant: the attribution appended whatever isRiv is)
AlwaysAttributed(selected, author, isRiv) == selected \o <<"LF">> \o author

\* isRiv ? selected : `${selected}\n${author}`
Attributed(selected, author, isRiv) ==
    IF isRiv THEN selected ELSE selected \o <<"LF">> \o author

\* #handleSingleLine(content, author, isRiv): the texts it may return
HandleSingleLine(content, author, isRiv) ==
    LET lines == Split(content, <<"LF">>)
    IN {Attributed(lines[i], author, isRiv) : i \in DOMAIN lines}

\* #handleMultiLine(chunks, author, isRiv): the texts it may return
HandleMultiLine(chunks, author, isRiv) ==
    {Attributed(chunks[i], author, isRiv) : i \in DOMAIN chunks}

\* #getRandomLyric from readFileSync on: the texts it may return for a file
LyricTexts(file, raw, isRiv) ==
    LET content == NormalizeEol(raw)
        chunks == Split(content, <<"LF", "LF">>)
    IN IF Len(chunks) = 1
       THEN HandleSingleLine(content, Author(file), isRiv)
       ELSE HandleMultiLine(chunks, Author(file), isRiv)

\* #getRandomLyric(targetDir, isRiv) for a group whose cached list holds
\* files that can be read: the file it picks, what it reads, what it returns
ReadLyric(groupId, isRiv) ==
    /\ GetTargetDir(groupId) \in DOMAIN cache.lyrics
    /\ ~NeedsRefresh(cache.lyrics[GetTargetDir(groupId)], clock)
    /\ \E i \in DOMAIN cache.lyrics[GetTargetDir(groupId)].files, raw \in Contents :
          LET file == cache.lyrics[GetTargetDir(groupId)].files[i]
          IN /\ CanRead(GetTargetDir(groupId), file)
             /\ \E out \in LyricTexts(file, raw, isRiv) :
                   hist' = [Served(GetTargetDir(groupId)) EXCEPT !.text =
                               [file |-> file, raw |-> raw, isRiv |-> isRiv, out |-> out]]
    /\ UNCHANGED <<clock, config, cache, saveTimer, fs, handlers, syncVars>>

----------------------------------------------------------------------------
(* The environment: the clock, and whoever else writes the library directories *)

RateTickSteps == {MIN_COOLDOWN}
CacheTickSteps == {FRESH_MS}

TickRate(d) ==
    /\ clock + d <= MaxRateTicks * MIN_COOLDOWN
    /\ clock' = clock + d
    /\ hist' = Quiet
    /\ UNCHANGED <<config, cache, saveTimer, fs, handlers, syncVars>>

TickCache(d) ==
    /\ clock + d <= MaxCacheTicks * FRESH_MS
    /\ clock' = clock + d
    /\ hist' = Quiet
    /\ UNCHANGED <<config, cache, saveTimer, fs, handlers, syncVars>>

\* a file or directory appears in a library directory
FsPut(dir, n) ==
    /\ fs[dir].state = "ok" /\ n \notin fs[dir].entries
    /\ fs' = [fs EXCEPT ![dir].entries = @ \cup {n}]
    /\ hist' = Quiet
    /\ UNCHANGED <<clock, config, cache, saveTimer, handlers, syncVars>>

\* a file or directory is removed from a library directory
FsDelete(dir, n) ==
    /\ fs[dir].state = "ok" /\ n \in fs[dir].entries
    /\ fs' = [fs EXCEPT ![dir].entries = @ \ {n}]
    /\ hist' = Quiet
    /\ UNCHANGED <<clock, config, cache, saveTimer, handlers, syncVars>>

\* a library directory is removed with all it holds
FsRmdir(dir) ==
    /\ fs[dir].state # "absent"
    /\ fs' = [fs EXCEPT ![dir] = AbsentDir]
    /\ hist' = Quiet
    /\ UNCHANGED <<clock, config, cache, saveTimer, handlers, syncVars>>

\* a library directory is created, empty
FsMkdir(dir) ==
    /\ fs[dir].state = "absent"
    /\ fs' = [fs EXCEPT ![dir] = [state |-> "ok", entries |-> {}]]
    /\ hist' = Quiet
    /\ UNCHANGED <<clock, config, cache, saveTimer, handlers, syncVars>>

\* a library directory stops, or starts again, being listable
FsChmod(dir) ==
    /\ fs[dir].state # "absent"
    /\ fs' = [fs EXCEPT ![dir].state = IF @ = "ok" THEN "denied" ELSE "ok"]
    /\ hist' = Quiet
    /\ UNCHANGED <<clock, config, cache, saveTimer, handlers, syncVars>>

----------------------------------------------------------------------------
(* Initial states: the plugin has just been constructed (#initSystem) *)

LibName == "lib1"

\* the configuration #loadConfigWithMigration returns: the default one, or
\* the one stored in config.json
StartConfig(bound) ==
    [DEFAULT_CONFIG EXCEPT !.libraries = [x \in {LibName} |-> LibDir],
                           !.groupMapping = [x \in bound |-> LibName]]

\* the state #initSystem leaves, for a configuration and a disk
Constructed(cfg, disk) ==
    LET r == RefreshCache(EmptyMap, COMMON_LYRICS_DIR, 0)
    IN /\ clock = 0
       /\ config = cfg
       /\ fs = disk
       /\ ~r.threw
       /\ cache = [lyrics |-> r.lyrics, rateLimit |-> EmptyMap]
       /\ saveTimer = FALSE
       /\ handlers = [p \in Procs |-> Idle]
       /\ hist = [draw |-> NoDraw, gets |-> <<>>, sync |-> NoSync, copy |-> NoCopy,
                  remove |-> NoRemove, text |-> NoText, synced |-> {},
                  admitted |-> [g \in Groups |-> 0]]

RateDisk ==
    [d \in Dirs |-> [state |-> "ok",
                     entries |-> IF d = COMMON_LYRICS_DIR THEN {"a.txt", "n.md"} ELSE {"a.txt"}]]

\* no repository is registered and no sync runs
NoSyncing ==
    /\ platform = "linux" /\ hostRepo = FALSE /\ remote = "c1"
    /\ git = [d \in Dirs |-> "none"]
    /\ staging = EmptyMap
    /\ syncs = [s \in 1..MaxSyncs |-> [pc |-> "idle"]]

InitRate == Constructed(StartConfig({}), RateDisk) /\ NoSyncing

CacheDisks ==
    {[d \in Dirs |-> IF d = COMMON_LYRICS_DIR THEN c ELSE AbsentDir] :
        c \in {AbsentDir, [state |-> "ok", entries |-> {"a.txt", "d.txt"}]}}

InitCache == /\ \E disk \in CacheDisks : Constructed(StartConfig({"g2"}), disk)
             /\ NoSyncing

MaxStrs == {0, 1, 1000}
CdStrs == {5, 60}

\* the groups the model lets draw one lyric at a time (every group may draw
\* a batch)
Drawers == {"g1"}

NextRate ==
    \/ \E p \in Procs, g \in Drawers, isRiv \in BOOLEAN : DrawLyrics(p, g, isRiv)
    \/ \E p \in Procs : LyricReplyDone(p)
    \/ \E p \in Procs : LyricReplyFail(p)
    \/ \E g \in Groups, n \in 0..MaxBatch, isRiv \in BOOLEAN : BatchDraw(g, n, isRiv)
    \/ \E m \in MaxStrs, c \in CdStrs : SetRateLimit(m, c)
    \/ \E d \in RateTickSteps : TickRate(d)

SpecRate == InitRate /\ [][NextRate]_vars

NextCache ==
    \/ \E g \in Groups, n \in 0..MaxBatch, isRiv \in BOOLEAN : BatchDraw(g, n, isRiv)
    \/ \E d \in CacheTickSteps : TickCache(d)
    \/ \E n \in Names : FsPut(COMMON_LYRICS_DIR, n)
    \/ \E n \in Names : FsDelete(COMMON_LYRICS_DIR, n)
    \/ FsRmdir(COMMON_LYRICS_DIR)
    \/ FsMkdir(COMMON_LYRICS_DIR)
    \/ FsChmod(COMMON_LYRICS_DIR)
    \/ FsMkdir(LibDir)
    \/ FsRmdir(LibDir)

SpecCache == InitCache /\ [][NextCache]_vars

----------------------------------------------------------------------------
(* Properties of the rate limiter, checked under SpecRate *)

Range(q) == {q[i] : i \in DOMAIN q}

Drew == hist.draw.group # "none"

\* the rate-limit entry of the group that just drew, after the evaluation
DrawnLimit == cache.rateLimit[hist.draw.group]

\* C1: at most maxPerWindow draws of a consumer are admitted within one
\* window, for every interleaving of its drawLyrics handlers: a draw that is
\* admitted is at most the maxPerWindow-th of its window.
C1_AtMostNPerWindow ==
    (Drew /\ hist.draw.admitted) => hist.draw.nth <= config.rateLimit.maxPerHour

\* C2: no random-item retrieval happens for a consumer whose window count has
\* reached maxPerWindow, whether the draw is single or batch.
C2_RetrievalsGated ==
    \A i \in DOMAIN hist.gets :
        LET g == hist.gets[i].group
        IN  g \in DOMAIN cache.rateLimit =>
              ~ /\ cache.rateLimit[g].count >= config.rateLimit.maxPerHour
                /\ clock - cache.rateLimit[g].resetAt <= config.rateLimit.cooldown

\* C3: a draw that arrives with now - windowStart > cooldownDuration resets
\* the state to count = 0, windowStart = now before the admission test, and is
\* admitted when maxPerWindow >= 1; with now - windowStart <= cooldownDuration
\* the state is not reset; the cooldownDuration and maxPerWindow used are the
\* ones the configuration holds at the time of the request.
C3_WindowReset ==
    Drew =>
      LET d == hist.draw
          rate == config.rateLimit
      IN /\ d.maxPerHour = rate.maxPerHour /\ d.cooldown = rate.cooldown
         /\ d.now = clock
         /\ d.limit = DrawnLimit
         /\ (d.existed /\ clock - d.pre.resetAt > rate.cooldown) =>
               /\ DrawnLimit = [count |-> 0, resetAt |-> clock]
               /\ rate.maxPerHour >= 1 => d.admitted
         /\ (d.existed /\ clock - d.pre.resetAt <= rate.cooldown) => DrawnLimit = d.pre
         /\ d.admitted <=> DrawnLimit.count < rate.maxPerHour

\* a draw found its window over, after setRateLimit had changed the
\* configuration, was reset and admitted
C3_Witness ==
    /\ Drew /\ hist.draw.existed /\ hist.draw.admitted
    /\ clock - hist.draw.pre.resetAt > config.rateLimit.cooldown
    /\ hist.draw.pre.count > 0
    /\ config.rateLimit # DEFAULT_CONFIG.rateLimit

\* C4 as stated: the wait reported by a throttled draw is the remaining
\* cooldown in whole seconds, ceil((cooldown - (now - windowStart)) / 1000).
C4_WaitInSeconds ==
    (Drew /\ ~hist.draw.admitted) =>
        hist.draw.wait =
            CeilDiv(config.rateLimit.cooldown - (clock - DrawnLimit.resetAt), SECOND_MS)

\* C4 as amended: the wait reported by a throttled draw is the remaining
\* cooldown in whole minutes, ceil((cooldown - (now - windowStart)) / 60000).
C4_WaitInMinutes ==
    (Drew /\ ~hist.draw.admitted) =>
        LET left == config.rateLimit.cooldown - (clock - DrawnLimit.resetAt)
        IN /\ hist.draw.wait * MINUTE_MS >= left
           /\ (hist.draw.wait - 1) * MINUTE_MS < left

\* a draw was throttled with part of the cooldown still to run
C4_Witness ==
    /\ Drew /\ ~hist.draw.admitted
    /\ config.rateLimit.maxPerHour >= 1
    /\ config.rateLimit.cooldown - (clock - DrawnLimit.resetAt) > 0

----------------------------------------------------------------------------
(* Properties of the Cache Manager, checked under SpecCache *)

Got == {hist.gets[i] : i \in DOMAIN hist.gets}

\* C5: #getRandomLyric uses an entry within the freshness window without
\* rebuilding it, and never selects from an entry that is missing or older:
\* that one is rebuilt from the current listing first.
C5_FreshOrRebuilt ==
    \A e \in Got :
        /\ (e.pre # NoEntry /\ e.now - e.pre.mtime <= FRESH_MS) => (~e.wrote /\ e.used = e.pre)
        /\ (e.picked # NoFile /\ (e.pre = NoEntry \/ e.now - e.pre.mtime > FRESH_MS)) =>
              (e.wrote /\ e.used.mtime = e.now)

\* the names of a listing that are regular files with the .txt extension
Eligible(names) == {n \in names : Ext(n) = ".txt" /\ Kind(n) = "file"}

\* C6: the file selected is one of the eligible content files recorded at the
\* last refresh of the directory's cache entry, and an empty recorded list
\* gives the failure reply, never content.
C6_SelectsRecorded ==
    /\ \A dir \in DOMAIN cache.lyrics :
          Range(cache.lyrics[dir].files) = Eligible(Range(cache.lyrics[dir].files))
    /\ \A e \in Got :
          /\ e.wrote => Range(e.used.files) = Eligible(e.disk)
          /\ e.picked # NoFile =>
                /\ e.dir \in DOMAIN cache.lyrics /\ e.used = cache.lyrics[e.dir]
                /\ e.picked \in Range(e.used.files)
          /\ e.ret.type = "lyric" => (e.ret.file = e.picked /\ e.ret.dir = e.dir)
          /\ (e.used # NoEntry /\ e.used.files = <<>>) =>
                (e.picked = NoFile /\ e.ret = UNAVAILABLE)

\* content was returned from a recorded list of two files, while the
\* directory also held a directory named like a content file
C6_Witness ==
    \E e \in Got :
        /\ e.ret.type = "lyric" /\ Len(e.used.files) = 2
        /\ "d.txt" \in e.disk

\* C7: every failure inside #getRandomLyric ends in the generic failure reply;
\* none leaves it as an exception.
C7_FailuresBecomeReply ==
    \A e \in Got :
        /\ ~e.escaped
        /\ e.threw => e.ret = UNAVAILABLE
        /\ (e.picked # NoFile /\ ~CanRead(e.dir, e.picked)) => e.ret = UNAVAILABLE
        /\ (e.used = NoEntry \/ e.picked = NoFile) => e.ret = UNAVAILABLE

\* a cached file had vanished from the directory when it was selected
C7_Witness ==
    \E e \in Got :
        /\ e.picked # NoFile /\ e.picked \notin fs[e.dir].entries
        /\ ~e.wrote /\ e.ret = UNAVAILABLE

----------------------------------------------------------------------------
(* The synchronisation pipeline on its own, its invocations starting at one  *)
(* reading of the clock: invocations that read different times name          *)
(* different staging directories and have no directory in common.            *)

SyncDisk ==
    [d \in Dirs |-> [state |-> "ok",
                     entries |-> IF d = COMMON_LYRICS_DIR THEN CommitFiles("c1") ELSE {"a.txt"}]]

\* the common library is a clone of the repository, one commit behind it;
\* lib1 was made by createLib
InitSyncOf(slots) ==
    /\ Constructed([StartConfig({"g2"}) EXCEPT
                       !.repositories = [x \in {RepoName} |-> RepoUrl]], SyncDisk)
    /\ platform \in {"linux", "win32"}
    /\ hostRepo \in BOOLEAN
    /\ remote = "c2"
    /\ git = [d \in Dirs |-> IF d = COMMON_LYRICS_DIR THEN "c1" ELSE "none"]
    /\ staging = EmptyMap
    /\ syncs = [s \in slots |-> IdleSync]

InitSync == InitSyncOf(Syncers)

NextSync ==
    \/ \E s \in Syncers : FetchFromRepo(s, LibName, RepoName)
    \/ \E s \in Syncers : UpdateCommon(s, RepoName)
    \/ \E s \in Syncers, ok \in BOOLEAN : EnsureDir(s, ok)
    \/ \E s \in Syncers : PathExists(s)
    \/ \E s \in Syncers, ok \in BOOLEAN : Vcs(s, ok)
    \/ \E s \in Syncers, found \in BOOLEAN : Probe(s, found)
    \/ \E s \in Syncers, ok \in BOOLEAN : Copy(s, ok)
    \/ \E s \in Syncers : ResolveHead(s)
    \/ \E s \in Syncers : Nuke(s)
    \/ \E s \in Syncers, ok \in BOOLEAN : Remove(s, ok)
    \/ \E s \in Syncers, how \in {"removed", "kept", "failed"} : Force(s, how)
    \/ \E s \in Syncers : ForceCheck(s)

SpecSync == InitSync /\ [][NextSync]_vars

----------------------------------------------------------------------------
(* Sync Engine *)

\* the step just taken was the return of a #syncRepo invocation
Returned == hist.sync.via # "none"

\* the invocation got past #syncFiles
CopySucceeded(y) == y.tried.ok \/ y.tried.value = "RevParseFailed"

\* C8 (as stated): when a sync invocation returns, after success or after a
\* failure of the clone, pull, copy or revision step, its staging directory
\* no longer exists.
C8_NoResidue == Returned => ~hist.sync.left

\* C8 (amended): when a sync invocation returns, the removal of its staging
\* directory has been attempted, and the directory no longer exists unless
\* that removal failed, in which case the failure has been logged.
C8_NoResidueUnlessLogged ==
    Returned => /\ hist.sync.cleanupTried
                /\ hist.sync.left => (hist.sync.cleanupFailed /\ hist.sync.logged)

\* a sync that cloned into its staging directory, failed at the copy step and
\* returned with the staging directory gone
C8_Witness ==
    /\ Returned
    /\ hist.sync.cloned # "none"
    /\ hist.sync.tried = Failed("CopyFailed")
    /\ ~hist.sync.left

\* C9: a sync invocation settles with exactly the outcome of its try block;
\* the removal of the staging directory has been attempted on every path, and
\* a failed removal is logged and changes neither a success nor an error.
C9_OutcomeIsTriedOutcome ==
    Returned => /\ hist.sync.result = hist.sync.tried
                /\ hist.sync.cleanupTried
                /\ hist.sync.cleanupFailed => hist.sync.logged

\* a sync that succeeded and whose staging directory could not be removed
C9_Witness ==
    /\ Returned
    /\ hist.sync.tried.ok
    /\ hist.sync.cleanupFailed
    /\ hist.sync.left

\* C10: a sync into a library without a working copy, whose clone and copy
\* both succeeded, succeeds with the revision of the cloned commit.
C10_CloneYieldsClonedHead ==
    (Returned /\ ~hist.sync.isExist /\ hist.sync.cloned # "none" /\ CopySucceeded(hist.sync))
        => hist.sync.result = Done(hist.sync.cloned)

\* the content files among the entries of a directory
Content(entries) == {n \in entries : EndsWithTxt(n) /\ IsFile(n)}

\* the step just taken was a copy step that succeeded
Copied == hist.copy.mode # "none"

----------------------------------------------------------------------------
(* The synchronisation pipeline with subprocesses that may hang.  The event  *)
(* loop runs every continuation that is ready, and a timer that is armed     *)
(* fires: each step of an invocation other than its start is weakly fair.    *)

\* the steps of invocation s after its start
Advance(s) ==
    \/ \E ok \in BOOLEAN : EnsureDir(s, ok)
    \/ PathExists(s)
    \/ \E ok \in BOOLEAN : Vcs(s, ok)
    \/ \E found \in BOOLEAN : Probe(s, found)
    \/ \E ok \in BOOLEAN : Copy(s, ok)
    \/ ResolveHead(s)
    \/ Nuke(s)
    \/ \E ok \in BOOLEAN : Remove(s, ok)
    \/ \E how \in {"removed", "kept", "failed"} : Force(s, how)
    \/ ForceCheck(s)
    \/ Timeout(s)

NextLive ==
    \/ \E s \in Syncers : FetchFromRepo(s, LibName, RepoName)
    \/ \E s \in Syncers : UpdateCommon(s, RepoName)
    \/ \E s \in Syncers : Advance(s)
    \/ \E s \in Syncers : Hang(s)

SpecLive == InitSync /\ [][NextLive]_vars /\ \A s \in Syncers : WF_vars(Advance(s))

\* C12: every sync invocation that has started eventually returns, even when
\* a subprocess it started never exits.
C12_EverySyncReturns ==
    \A s \in Syncers : (syncs[s].pc # "idle") ~> (syncs[s].pc = "idle")

----------------------------------------------------------------------------
(* The library manager on its own *)

\* the disks the plugin may find: lib1 empty or not, with or without its
\* subdirectory; a directory outside the libraries root, there or not
LibDisks ==
    { [d \in DiskDirs |->
          CASE d = COMMON_LYRICS_DIR -> [state |-> "ok", entries |-> {"a.txt"}]
            [] d = LibDir -> [state |-> "ok", entries |-> lib]
            [] d = NestedDir -> IF "d.txt" \in lib THEN [state |-> "ok", entries |-> sub]
                                ELSE AbsentDir
            [] d = DotsDir -> AbsentDir
            [] d = OutsideDir -> out
            [] d = SiblingDir -> [state |-> "ok", entries |-> {}]] :
      lib \in SUBSET {"a.txt", "d.txt"}, sub \in {{}, {"b.txt"}},
      out \in {AbsentDir, [state |-> "ok", entries |-> {}],
               [state |-> "ok", entries |-> {"a.txt"}]} }

\* the paths config.json may hold for a library registered by an earlier run
OldPaths == {EscapingPath, OutsideDir, SiblingDir, NestedDir}

LibConfigs ==
    {StartConfig({})} \cup
    {[StartConfig({}) EXCEPT !.libraries = With(@, "old", q)] : q \in OldPaths}

InitLib ==
    /\ \E cfg \in LibConfigs, disk \in LibDisks : Constructed(cfg, disk)
    /\ NoSyncing

NewNames == {"lib1", "a..b", "a/b"}
LibNames == {"lib1", "a..b", "old", "constructor"}

NextLib ==
    \/ \E n \in NewNames, mkdir \in BOOLEAN : CreateLib(n, mkdir)
    \/ \E g \in Groups, n \in LibNames : LinkGroup(g, n)
    \/ \E n \in LibNames : RemoveLib(n)
    \/ \E d \in {LibDir, DotsDir} : FsPut(d, "a.txt")
    \/ \E d \in {LibDir, DotsDir} : FsDelete(d, "a.txt")
    \/ FsChmod(LibDir)

SpecLib == InitLib /\ [][NextLib]_vars

----------------------------------------------------------------------------
(* Library Manager *)

\* the step just taken was a removeLib that reached #safeRemoveDir
RemoveCalled == hist.remove.libName # "none"

\* a path that, its '..' segments resolved, lies below the libraries root
Contained(p) ==
    LET base == Resolved(SAFE_BASE)
    IN /\ Len(Resolved(p)) > Len(base)
       /\ SubSeq(Resolved(p), 1, Len(base)) = base

\* the paths of the test
IsPath(p) == p # Inherited

\* C13: the containment check of #safeRemoveDir accepts a path exactly when
\* the path, its '..' segments resolved, lies below the libraries root.
C13_GuardIsContainment ==
    (RemoveCalled /\ IsPath(hist.remove.targetDir) /\ hist.remove.checked)
        => ((hist.remove.error # "PathEscape") <=> Contained(hist.remove.targetDir))

\* no directory of the tree under dir is unreadable
NoneLocked(disk, dir) ==
    /\ disk[dir].state = "ok"
    /\ (dir = LibDir /\ "d.txt" \in disk[dir].entries) => disk[NestedDir].state = "ok"

\* C14: #safeRemoveDir on an existing path the check accepts, nothing in the
\* tree being locked, returns normally and leaves the path absent.
C14_TreeRemoved ==
    (/\ RemoveCalled /\ IsPath(hist.remove.targetDir)
     /\ hist.remove.existed /\ Contained(hist.remove.targetDir)
     /\ hist.remove.error # "PathEscape"
     /\ NoneLocked(hist.remove.before, Canonical(hist.remove.targetDir)))
        => (~hist.remove.threw /\ ~ExistsOn(fs, hist.remove.targetDir))

\* C15: #safeRemoveDir on a path outside the libraries root, existing or
\* not, throws the path-escape error and removes nothing.
C15_GuardFirst ==
    (RemoveCalled /\ IsPath(hist.remove.targetDir) /\ ~Contained(hist.remove.targetDir))
        => (hist.remove.threw /\ hist.remove.error = "PathEscape" /\ fs = hist.remove.before)

\* C16: removeLib leaves the registry as it was when #safeRemoveDir threw,
\* and when it did not throw the directory does not exist and the entry is
\* gone.
C16_EntryDroppedAfterRemoval ==
    RemoveCalled =>
        /\ hist.remove.threw => config.libraries = hist.remove.registered
        /\ ~hist.remove.threw =>
              /\ ~ExistsOn(fs, hist.remove.targetDir)
              /\ hist.remove.libName \notin DOMAIN config.libraries

\* a removeLib whose deletion failed on a directory that exists, the entry
\* being kept
C16_Witness ==
    /\ RemoveCalled
    /\ hist.remove.existed /\ hist.remove.threw
    /\ hist.remove.libName \in DOMAIN config.libraries

\* C17: a group resolves to the path of the library it is bound to when that
\* library is registered, and to the common library otherwise.
C17_ResolvesBoundOrDefault ==
    \A g \in Groups :
        GetTargetDir(g) =
            IF g \in DOMAIN config.groupMapping
               /\ config.groupMapping[g] \in DOMAIN config.libraries
            THEN config.libraries[config.groupMapping[g]]
            ELSE COMMON_LYRICS_DIR

----------------------------------------------------------------------------
(* Lyric text *)

NextText == \E g \in Groups, isRiv \in BOOLEAN : ReadLyric(g, isRiv)

SpecText == InitRate /\ [][NextText]_vars

\* the step just taken read a file and made a text of it
TextMade == hist.text.file # "none"

\* the text a sequence holds from position i + 1 on, n characters long
Piece(text, i, n) == SubSeq(text, i + 1, i + n)

BlankLine == <<"LF", "LF">>

HasBlankLine(text) == \E i \in 0..(Len(text) - 2) : Piece(text, i, 2) = BlankLine

\* sel is one of the newline-separated lines of text
IsLineOf(sel, text) ==
    /\ \A i \in DOMAIN sel : sel[i] # "LF"
    /\ \E i \in 0..(Len(text) - Len(sel)) :
          /\ Piece(text, i, Len(sel)) = sel
          /\ i = 0 \/ text[i] = "LF"
          /\ i + Len(sel) = Len(text) \/ text[i + Len(sel) + 1] = "LF"

\* sel is one of the pieces of text between blank-line boundaries
IsChunkOf(sel, text) ==
    /\ ~HasBlankLine(sel)
    /\ \E i \in 0..(Len(text) - Len(sel)) :
          /\ Piece(text, i, Len(sel)) = sel
          /\ i = 0 \/ (i >= 2 /\ Piece(text, i - 2, 2) = BlankLine)
          /\ i + Len(sel) = Len(text) \/ Piece(text, i + Len(sel), 2) = BlankLine

\* the attribution line of a file, with the newline before it
AttributionOf(file) == <<"LF", "--", Basename(file)>>

\* C18: the text returned for a file is one line of the normalized content
\* when the content has no blank-line boundary and one whole chunk of it
\* otherwise, followed by the attribution line exactly when isRiv is not set.
C18_LineOrChunkAttributed ==
    TextMade =>
        LET t == hist.text
            content == NormalizeEol(t.raw)
            n == Len(t.out) - Len(AttributionOf(t.file))
            sel == IF t.isRiv THEN t.out ELSE SubSeq(t.out, 1, n)
        IN /\ \A i \in DOMAIN content : content[i] # "CR"
           /\ ("CR" \notin {t.raw[i] : i \in DOMAIN t.raw}) => content = t.raw
           /\ ~t.isRiv => (n >= 0 /\ t.out = sel \o AttributionOf(t.file))
           /\ IF HasBlankLine(content) THEN IsChunkOf(sel, content)
                                       ELSE IsLineOf(sel, content)

\* a file with carriage returns and two chunks, a chunk of it returned with
\* its attribution
C18_Witness ==
    /\ TextMade /\ ~hist.text.isRiv
    /\ "CR" \in {hist.text.raw[i] : i \in DOMAIN hist.text.raw}
    /\ HasBlankLine(NormalizeEol(hist.text.raw))
    /\ Len(hist.text.out) > Len(AttributionOf(hist.text.file))

----------------------------------------------------------------------------
(* Sync invocations that overlap: handlers started for two messages that    *)
(* arrive while the first sync is still running, at one reading of the      *)
(* clock.                                                                   *)

Racers == 1..MaxRacers

InitRace == InitSyncOf(Racers)

NextRace ==
    \/ \E s \in Racers : FetchFromRepo(s, LibName, RepoName)
    \/ \E s \in Racers : UpdateCommon(s, RepoName)
    \/ \E s \in Racers, ok \in BOOLEAN : EnsureDir(s, ok)
    \/ \E s \in Racers : PathExists(s)
    \/ \E s \in Racers, ok \in BOOLEAN : Vcs(s, ok)
    \/ \E s \in Racers, found \in BOOLEAN : Probe(s, found)
    \/ \E s \in Racers, ok \in BOOLEAN : Copy(s, ok)
    \/ \E s \in Racers : ResolveHead(s)
    \/ \E s \in Racers : Nuke(s)
    \/ \E s \in Racers, ok \in BOOLEAN : Remove(s, ok)
    \/ \E s \in Racers, how \in {"removed", "kept", "failed"} : Force(s, how)
    \/ \E s \in Racers : ForceCheck(s)

SpecRace == InitRace /\ [][NextRace]_vars

InFlight(s) == syncs[s].pc # "idle"

\* the invocations that have cloned into their staging directory and have
\* not yet copied from it
Staged(s) == syncs[s].pc \in {"probe", "copy"} /\ ~syncs[s].isExist

\* no invocation that has yet to copy from its staging directory has lost it
StagingKept == \A s \in DOMAIN syncs : Staged(s) => Exists(syncs[s].tempDir)

\* C19: two sync invocations in flight never name the same staging
\* directory, and an invocation keeps the staging directory it cloned into
\* until it has copied from it.
C19_DistinctStaging ==
    /\ \A s1, s2 \in DOMAIN syncs :
          (s1 # s2 /\ InFlight(s1) /\ InFlight(s2)) => syncs[s1].tempDir # syncs[s2].tempDir
    /\ StagingKept

----------------------------------------------------------------------------
(* Draws around a sync: one invocation at a time, the groups drawing from    *)
(* the common library (g1) and from lib1 (g2), all within the thirty minutes *)
(* for which a cached file list counts as fresh.                             *)

NextFresh ==
    \/ \E s \in Syncers : FetchFromRepo(s, LibName, RepoName)
    \/ \E s \in Syncers : UpdateCommon(s, RepoName)
    \/ \E s \in Syncers, ok \in BOOLEAN : EnsureDir(s, ok)
    \/ \E s \in Syncers : PathExists(s)
    \/ \E s \in Syncers, ok \in BOOLEAN : Vcs(s, ok)
    \/ \E s \in Syncers, found \in BOOLEAN : Probe(s, found)
    \/ \E s \in Syncers, ok \in BOOLEAN : Copy(s, ok)
    \/ \E s \in Syncers : ResolveHead(s)
    \/ \E s \in Syncers : Nuke(s)
    \/ \E s \in Syncers, ok \in BOOLEAN : Remove(s, ok)
    \/ \E s \in Syncers, how \in {"removed", "kept", "failed"} : Force(s, how)
    \/ \E s \in Syncers : ForceCheck(s)
    \/ \E g \in Groups, isRiv \in BOOLEAN : BatchDraw(g, 1, isRiv)

SpecFresh == InitSync /\ [][NextFresh]_vars

\* the first #getRandomLyric call of the step just taken, when no other call
\* was made on its directory since a sync of that directory succeeded
FirstAfterSync == {hist.gets[i] : i \in {j \in DOMAIN hist.gets : j = 1 /\ hist.gets[j].afterSync}}

\* the cached file list the call selected from
ListUsed(e) == IF e.used = NoEntry THEN {} ELSE {e.used.files[i] : i \in DOMAIN e.used.files}

\* C20: after a sync of a library has completed successfully, through
\* fetchFromRepo or through updateCommon, the next #getRandomLyric on that
\* library selects only from files that exist in the library after the
\* sync: the list it uses holds no file the sync removed.
C20_NextGetSeesSyncedFiles ==
    \A e \in FirstAfterSync :
        /\ ListUsed(e) \subseteq e.disk
        /\ e.picked # NoFile => e.picked \in e.disk
====
